---- MODULE Spec2Model ----
(***************************************************************************)
(* The experiment life cycle of qiskit_experiments.framework:              *)
(* BaseExperiment (constructor-argument capture, the four option           *)
(* namespaces, config / from_config), ExperimentConfig.experiment, and the *)
(* subclasses T1 and CompositeExperiment; BaseExperiment.run with the job  *)
(* batching of _run_jobs and the job metadata of _add_job_metadata.        *)
(*                                                                         *)
(* Python values.  None is the string "None".  A dict (and an Options      *)
(* attribute bag) is a function whose domain is its set of keys; <<>> is   *)
(* the empty dict.  A list of delays is the string of its literal, with    *)
(* len() given by the operator len.  The `qubits` argument, which Python   *)
(* lets be an Integral or a list, is a tagged record (Integral / QList).   *)
(* An operation that can raise returns [raised, obj]: the exception's name *)
(* ("none" when it returns normally) and the object as the operation left  *)
(* it.                                                                     *)
(***************************************************************************)
EXTENDS Integers, Sequences, FiniteSets, TLC

VARIABLES
    pc,       \* "start" before the constructor call, then "live" or "failed"
    self,     \* the experiment object
    call,     \* the last call made: [op, cls, args, kwargs, fields, config]
    raised,   \* the exception the last call raised, "none" if it returned
    ret,      \* the experiment the last call returned (from_config, experiment)
    executed,         \* run's local `experiment`: the object the last run executed on
    experiment_data,  \* the container the last run created
    jobs,             \* the jobs the last run submitted, in submission order
    effects           \* the calls the last run made outside the experiment, in order

vars == <<pc, self, call, raised, ret, executed, experiment_data, jobs, effects>>

None == "None"

\* ---------------------------------------------------------------- bounds
\* Qubit indices and qubit counts range over -1 .. MaxQubit.
MaxQubit == 1
\* Transpiler optimization levels passed by the user range over 0 .. MaxLevel.
MaxLevel == 1
\* The hardware backend's configuration has max_experiments = MaxExperiments.
MaxExperiments == 2
\* circuits() of a composite experiment returns 0 .. MaxCircuits circuits.
MaxCircuits == 3

\* ------------------------------------------------------------ dict helpers
\* dict.update / Options.update_options(**fields)
update_options(d, fields) ==
    [k \in DOMAIN d \cup DOMAIN fields |-> IF k \in DOMAIN fields THEN fields[k] ELSE d[k]]

\* dict((key, getattr(options, key)) for key in keys)
getattrs(options, keys) == [k \in keys |-> options[k]]

\* every dict with keys among `names`, the value of key k drawn from vals[k]
RECURSIVE Dicts(_, _)
Dicts(names, vals) ==
    IF names = {} THEN {<<>>}
    ELSE LET k == CHOOSE x \in names : TRUE
             rest == Dicts(names \ {k}, vals)
         IN  rest \cup {update_options(d, [x \in {k} |-> v]) : d \in rest, v \in vals[k]}

Range(s) == {s[i] : i \in DOMAIN s}

\* len() of a delays list
len(delays) == IF delays = "[1,2]" THEN 2 ELSE IF delays = "[1,2,3]" THEN 3 ELSE 0

\* the `qubits` argument: an Integral or a list of qubits
Integral(n) == [Integral |-> TRUE, n |-> n, list |-> <<>>]
QList(s) == [Integral |-> FALSE, n |-> 0, list |-> s]

\* tuple(range(n))
range(n) == [i \in 1..n |-> i - 1]

\* ---------------------------------------------------------------- backends
\* "sim" is a simulator backend, "dev" a hardware backend (its configuration
\* has simulator = False and it is no FakeBackend).
Backends == {"sim", "dev"}
simulator(backend) == backend = "sim"
isFakeBackend(backend) == FALSE

\* getattr(backend.configuration(), "max_experiments", None).  The simulator's
\* configuration has no such attribute; 0 stands for that None, which the
\* test `if max_experiments and ...` treats as it treats 0.
max_experiments(backend) == IF backend = "dev" THEN MaxExperiments ELSE 0

\* ----------------------------------------------------------------- classes
Classes == {"T1", "CompositeExperiment"}

\* inspect.getfullargspec(cls.__init__).args[1:]
init_arg_names(cls) ==
    IF cls = "T1" THEN <<"qubit", "delays", "backend", "unit">>
    ELSE <<"experiments", "qubits", "backend", "experiment_type">>

\* spec.defaults, by parameter name
init_defaults(cls) ==
    IF cls = "T1" THEN [backend |-> None, unit |-> "s"]
    ELSE [backend |-> None, experiment_type |-> None]

\* __analysis_class__ of the class
analysis_class(cls) == IF cls = "T1" THEN "T1Analysis" ELSE "CompositeAnalysis"

\* whether the experiment class has a class attribute `version`
has_version(cls) == FALSE

\* ---------------------------------------------------------- default options
_default_experiment_options(cls) ==
    IF cls = "T1" THEN [delays |-> None, unit |-> "s"] ELSE <<>>

_default_transpile_options(cls) == [optimization_level |-> 0]

_default_run_options(cls) == [meas_level |-> "CLASSIFIED"]

\* The analysis classes' _default_options() are outside the sources at hand:
\* T1Analysis declares its plot labels, CompositeAnalysis declares nothing.
analysis_default_options(acls) ==
    IF acls = "T1Analysis" THEN [xlabel |-> "Delay"] ELSE <<>>

_default_analysis_options(cls) ==
    IF analysis_class(cls) # None THEN analysis_default_options(analysis_class(cls))
    ELSE <<>>

\* ------------------------------------------------------------------ objects
NoPassed == [experiment_options |-> <<>>, transpile_options |-> <<>>, run_options |-> <<>>]

\* The instance object.__new__ returns: no attribute assigned yet.
\* options_assigned tells whether __init__ has reached the assignment of the
\* four Options attributes; `passed` is history: the fields passed to the
\* successful calls of each setter so far, with the value last passed.
BlankObject(cls) ==
    [cls |-> cls, _type |-> None, _backend |-> None,
     _num_qubits |-> 0, _physical_qubits |-> <<>>,
     _experiment_options |-> <<>>, _transpile_options |-> <<>>,
     _run_options |-> <<>>, _analysis_options |-> <<>>,
     _set_experiment_options |-> {}, _set_transpile_options |-> {},
     _set_run_options |-> {}, _set_analysis_options |-> {},
     __init_args__ |-> <<>>, __init_kwargs__ |-> <<>>,
     _experiments |-> <<>>, options_assigned |-> FALSE, passed |-> NoPassed]

NoObject == BlankObject(None)

Ok(obj) == [raised |-> "none", obj |-> obj]
Raise(ex, obj) == [raised |-> ex, obj |-> obj]

\* Sequencing.  Let(e, F) is F(e) with e evaluated once; Then(e, F) runs the
\* statement e and, unless it raised, the statements F on the object it left.
Let(e, F(_)) == CHOOSE y \in {F(x) : x \in {e}} : TRUE
Then(e, F(_)) == Let(e, LAMBDA r : IF r.raised # "none" THEN r ELSE F(r.obj))

\* hasattr(options, field), for the option names the callers pass
hasattr(options, field) == field \in DOMAIN options

\* ------------------------------------------------------------ option setters
\* set_experiment_options without the validation loop
set_experiment_options_unchecked(obj, fields) ==
    Ok([obj EXCEPT
           !._experiment_options = update_options(@, fields),
           !._set_experiment_options = @ \cup DOMAIN fields,
           !.passed.experiment_options = update_options(@, fields)])

\* set_experiment_options validating and setting field by field: the fields
\* that are options are set before the call raises for one that is not
set_experiment_options_fieldwise(obj, fields) ==
    LET valid == [f \in {g \in DOMAIN fields : hasattr(obj._experiment_options, g)} |-> fields[f]]
        applied == [obj EXCEPT
                       !._experiment_options = update_options(@, valid),
                       !._set_experiment_options = @ \cup DOMAIN valid,
                       !.passed.experiment_options = update_options(@, valid)]
    IN  IF DOMAIN valid # DOMAIN fields THEN Raise("AttributeError", applied) ELSE Ok(applied)

set_experiment_options(obj, fields) ==
    IF \E field \in DOMAIN fields : ~hasattr(obj._experiment_options, field)
    THEN Raise("AttributeError", obj)
    ELSE Ok([obj EXCEPT
                !._experiment_options = update_options(@, fields),
                !._set_experiment_options = @ \cup DOMAIN fields,
                !.passed.experiment_options = update_options(@, fields)])

\* set_transpile_options checking for initial_layout after the update
set_transpile_options_late_check(obj, fields) ==
    LET applied == [obj EXCEPT
                       !._transpile_options = update_options(@, fields),
                       !._set_transpile_options = @ \cup DOMAIN fields,
                       !.passed.transpile_options = update_options(@, fields)]
    IN  IF "initial_layout" \in DOMAIN fields THEN Raise("QiskitError", applied) ELSE Ok(applied)

set_transpile_options(obj, fields) ==
    IF "initial_layout" \in DOMAIN fields
    THEN Raise("QiskitError", obj)
    ELSE Ok([obj EXCEPT
                !._transpile_options = update_options(@, fields),
                !._set_transpile_options = @ \cup DOMAIN fields,
                !.passed.transpile_options = update_options(@, fields)])

\* set_run_options without the update of the keys set
set_run_options_untracked(obj, fields) ==
    Ok([obj EXCEPT
           !._run_options = update_options(@, fields),
           !.passed.run_options = update_options(@, fields)])

set_run_options(obj, fields) ==
    Ok([obj EXCEPT
           !._run_options = update_options(@, fields),
           !._set_run_options = @ \cup DOMAIN fields,
           !.passed.run_options = update_options(@, fields)])

set_analysis_options(obj, fields) ==
    Ok([obj EXCEPT
           !._analysis_options = update_options(@, fields),
           !._set_analysis_options = @ \cup DOMAIN fields])

\* ------------------------------------------------------------------ backend
\* getattr(options, name, default)
getattr(options, name, default) ==
    IF name \in DOMAIN options THEN options[name] ELSE default

\* T1._set_backend after super()._set_backend(backend): the scheduling
\* parameters of a hardware backend.
T1_scheduling(obj, backend) ==
    IF obj._backend = None
    THEN Raise("AttributeError", obj)      \* None.configuration()
    ELSE IF simulator(backend) \/ isFakeBackend(backend)
    THEN Ok(obj)
    ELSE IF ~obj.options_assigned
    THEN Raise("AttributeError", obj)      \* self._transpile_options is not assigned yet
    ELSE Let(getattr(obj._transpile_options, "timing_constraints", <<>>),
             LAMBDA got :
                set_transpile_options(obj,
                    [timing_constraints |->
                        IF "acquire_alignment" \notin DOMAIN got
                        THEN update_options(got, [aquire_aligment |-> 16]) ELSE got,
                     scheduling_method |->
                        getattr(obj._transpile_options, "scheduling_method", "alap")]))

\* the loop of CompositeExperiment._set_backend assigning _backend of the
\* component experiments itself, without calling their _set_backend
_set_backend_loop_shallow(obj, backend, i) ==
    Ok([obj EXCEPT !._experiments = [j \in DOMAIN @ |-> [@[j] EXCEPT !._backend = backend]]])

\* BaseExperiment._set_backend, T1._set_backend and
\* CompositeExperiment._set_backend (the loop over the component experiments
\* stops at the first one that raises).
RECURSIVE _set_backend(_, _)
RECURSIVE _set_backend_loop(_, _, _)
_set_backend_loop(obj, backend, i) ==
    IF i > Len(obj._experiments) THEN Ok(obj)
    ELSE Let(_set_backend(obj._experiments[i], backend),
             LAMBDA r :
                Let([obj EXCEPT !._experiments[i] = r.obj],
                    LAMBDA o : IF r.raised # "none" THEN Raise(r.raised, o)
                               ELSE _set_backend_loop(o, backend, i + 1)))

_set_backend(obj, backend) ==
    Let([obj EXCEPT !._backend = backend],
        LAMBDA base :
           IF obj.cls = "T1" THEN T1_scheduling(base, backend)
           ELSE IF obj.cls = "CompositeExperiment" THEN _set_backend_loop(base, backend, 1)
           ELSE Ok(base))

\* ----------------------------------------------------------- construction
\* A call cls(*args, **kwargs).
Supplied(names, args, kwargs, i) == i <= Len(args) \/ names[i] \in DOMAIN kwargs
Passed(names, args, kwargs, i) == IF i <= Len(args) THEN args[i] ELSE kwargs[names[i]]

\* BaseExperiment.__new__: ord_args as the sequence of its (name, value)
\* items, ord_kwargs as a dict.
RECURSIVE ord_args(_, _, _, _, _)
ord_args(names, num_init_args, args, kwargs, i) ==
    IF i > num_init_args THEN <<>>
    ELSE (IF Supplied(names, args, kwargs, i)
          THEN << <<names[i], Passed(names, args, kwargs, i)>> >> ELSE <<>>)
         \o ord_args(names, num_init_args, args, kwargs, i + 1)

\* ord_kwargs from the keyword arguments alone
ord_kwargs_keywords_only(names, num_init_args, args, kwargs) ==
    [argname \in {names[i] : i \in {j \in (num_init_args + 1)..Len(names) :
                                       names[j] \in DOMAIN kwargs}} |-> kwargs[argname]]

ord_kwargs(names, num_init_args, args, kwargs) ==
    [argname \in {names[i] : i \in {j \in (num_init_args + 1)..Len(names) :
                                       Supplied(names, args, kwargs, j)}} |->
        Passed(names, args, kwargs, CHOOSE i \in 1..Len(names) : names[i] = argname)]

__new__(cls, args, kwargs) ==
    [BlankObject(cls) EXCEPT
        !.__init_args__ =
            ord_args(init_arg_names(cls),
                     Len(init_arg_names(cls)) - Cardinality(DOMAIN init_defaults(cls)),
                     args, kwargs, 1),
        !.__init_kwargs__ =
            ord_kwargs(init_arg_names(cls),
                       Len(init_arg_names(cls)) - Cardinality(DOMAIN init_defaults(cls)),
                       args, kwargs)]

\* Python's binding of a call to the parameters of cls.__init__ (all of them
\* positional-or-keyword): TypeError for too many positional arguments, an
\* unknown keyword, a parameter given twice, or a parameter without default
\* left out.
bind(cls, args, kwargs) ==
    LET names == init_arg_names(cls)
        defaults == init_defaults(cls)
    IN  IF \/ Len(args) > Len(names)
           \/ \E k \in DOMAIN kwargs : k \notin Range(names)
           \/ \E i \in 1..Len(args) : names[i] \in DOMAIN kwargs
           \/ \E i \in 1..Len(names) :
                 /\ names[i] \notin DOMAIN defaults
                 /\ ~Supplied(names, args, kwargs, i)
        THEN [raised |-> "TypeError", bound |-> <<>>]
        ELSE [raised |-> "none",
              bound |-> [p \in Range(names) |->
                           LET i == CHOOSE j \in 1..Len(names) : names[j] = p
                           IN  IF Supplied(names, args, kwargs, i)
                               THEN Passed(names, args, kwargs, i)
                               ELSE defaults[p]]]

\* BaseExperiment.__init__, lines 143-153: the options and the keys set
assign_options(obj) ==
    [obj EXCEPT
        !._experiment_options = _default_experiment_options(obj.cls),
        !._transpile_options = _default_transpile_options(obj.cls),
        !._run_options = _default_run_options(obj.cls),
        !._analysis_options = _default_analysis_options(obj.cls),
        !._set_experiment_options = {},
        !._set_transpile_options = {},
        !._set_run_options = {},
        !._set_analysis_options = {},
        !.options_assigned = TRUE]

\* BaseExperiment.__init__, lines 133-141: the circuit parameters
assign_qubits(obj, qubits) ==
    IF qubits.Integral
    THEN Ok([obj EXCEPT !._num_qubits = qubits.n,
                        !._physical_qubits = range(qubits.n)])
    ELSE IF Len(qubits.list) # Cardinality(Range(qubits.list))
    THEN Raise("QiskitError", [obj EXCEPT !._num_qubits = Len(qubits.list),
                                          !._physical_qubits = qubits.list])
    ELSE Ok([obj EXCEPT !._num_qubits = Len(qubits.list),
                        !._physical_qubits = qubits.list])

\* BaseExperiment.__init__
BaseExperiment__init__(obj, qubits, backend, experiment_type) ==
    Then(Let([obj EXCEPT
                 !._type = IF experiment_type # None THEN experiment_type ELSE obj.cls,
                 !._backend = None],
             LAMBDA o1 : IF backend \in Backends THEN _set_backend(o1, backend) ELSE Ok(o1)),
         LAMBDA o2 :
            Then(assign_qubits(o2, qubits), LAMBDA o3 : Ok(assign_options(o3))))

\* T1.__init__
T1__init__(obj, b) ==
    IF len(b.delays) < 3 THEN Raise("ValueError", obj)
    ELSE Then(BaseExperiment__init__(obj, QList(<<b.qubit>>), b.backend, None),
              LAMBDA o : set_experiment_options(o, [delays |-> b.delays, unit |-> b.unit]))

\* CompositeExperiment.__init__
CompositeExperiment__init__(obj, b) ==
    Let([obj EXCEPT !._experiments = b.experiments],
        LAMBDA o : BaseExperiment__init__(o, b.qubits, b.backend, b.experiment_type))

\* cls(*args, **kwargs): __new__, then __init__ on the instance
Construct(cls, args, kwargs) ==
    Let(__new__(cls, args, kwargs),
        LAMBDA instance :
           Let(bind(cls, args, kwargs),
               LAMBDA b :
                  IF b.raised # "none" THEN Raise(b.raised, instance)
                  ELSE IF cls = "T1" THEN T1__init__(instance, b.bound)
                  ELSE CompositeExperiment__init__(instance, b.bound)))

\* --------------------------------------------------------------- config
\* BaseExperiment.config; isdict is FALSE for an ExperimentConfig
config(obj) ==
    [isdict |-> FALSE,
     cls |-> obj.cls,
     args |-> [i \in 1..Len(obj.__init_args__) |-> obj.__init_args__[i][2]],
     kwargs |-> obj.__init_kwargs__,
     experiment_options |-> getattrs(obj._experiment_options, obj._set_experiment_options),
     transpile_options |-> getattrs(obj._transpile_options, obj._set_transpile_options),
     run_options |-> getattrs(obj._run_options, obj._set_run_options)]

\* the same settings as a plain dict of ExperimentConfig fields
asdict(cfg) == [cfg EXCEPT !.isdict = TRUE]

\* from_config without the run options
from_config_without_run_options(cls, cfg) ==
    IF cfg.isdict THEN Raise("TypeError", NoObject)
    ELSE LET r0 == Construct(cls, cfg.args, cfg.kwargs)
             r1 == IF r0.raised = "none" /\ cfg.experiment_options # <<>>
                   THEN set_experiment_options(r0.obj, cfg.experiment_options) ELSE r0
             r2 == IF r1.raised = "none" /\ cfg.transpile_options # <<>>
                   THEN set_transpile_options(r1.obj, cfg.transpile_options) ELSE r1
         IN  IF r2.raised # "none" THEN Raise(r2.raised, NoObject) ELSE r2

\* BaseExperiment.from_config.  For a dict, `ExperimentConfig(**dict)` applies
\* ** to the builtin type dict, which is no mapping: TypeError.  An
\* exception leaves the caller without an object.
from_config(cls, cfg) ==
    IF cfg.isdict THEN Raise("TypeError", NoObject)
    ELSE Let(Then(Construct(cls, cfg.args, cfg.kwargs),
                  LAMBDA ret0 :
                     Then(IF cfg.experiment_options # <<>>
                          THEN set_experiment_options(ret0, cfg.experiment_options)
                          ELSE Ok(ret0),
                          LAMBDA ret1 :
                             Then(IF cfg.transpile_options # <<>>
                                  THEN set_transpile_options(ret1, cfg.transpile_options)
                                  ELSE Ok(ret1),
                                  LAMBDA ret2 :
                                     IF cfg.run_options # <<>>
                                     THEN set_run_options(ret2, cfg.run_options)
                                     ELSE Ok(ret2)))),
             LAMBDA r : IF r.raised # "none" THEN Raise(r.raised, NoObject) ELSE r)

\* ExperimentConfig.experiment.  cls "dict" is a class that was not
\* deserialized.  The handler of a failed reconstruction reads cls.version
\* on the experiment class before it raises QiskitError.
experiment(cfg) ==
    IF cfg.cls = None THEN Raise("QiskitError", NoObject)
    ELSE IF cfg.cls = "dict" THEN Raise("QiskitError", NoObject)
    ELSE Let(from_config(cfg.cls, cfg),
             LAMBDA r :
                IF r.raised = "none" THEN r
                ELSE IF ~has_version(cfg.cls) THEN Raise("AttributeError", NoObject)
                ELSE Raise("QiskitError", NoObject))

\* ---------------------------------------------------------------------- run
\* BaseExperiment.copy and CompositeExperiment.copy: a new object with new
\* Options objects, the component experiments copied in turn.
RECURSIVE copy(_)
copy(obj) ==
    [obj EXCEPT !._experiments = [i \in DOMAIN @ |-> copy(@[i])]]

\* copy.copy of an Options object is shallow: an option whose value is a dict
\* is, in the copy, the same dict object.  T1._set_backend on the copy updates
\* the timing_constraints dict it reads from the options in place and stores
\* it back, so the original's option of that name (and the value last passed
\* to its setter, the same object) has the content the copy's has.
RECURSIVE shared_values(_, _)
shared_values(orig, cpy) ==
    [orig EXCEPT
        !._transpile_options =
            [k \in DOMAIN @ |->
                IF k = "timing_constraints" THEN cpy._transpile_options[k] ELSE @[k]],
        !.passed.transpile_options =
            [k \in DOMAIN @ |->
                IF k = "timing_constraints" THEN cpy._transpile_options[k] ELSE @[k]],
        !._experiments = [i \in DOMAIN @ |-> shared_values(@[i], cpy._experiments[i])]]

\* BaseExperiment._metadata
_metadata(obj) ==
    [experiment_type |-> obj._type,
     num_qubits |-> obj._num_qubits,
     physical_qubits |-> obj._physical_qubits,
     job_metadata |-> <<>>]

\* The containers ExperimentData(experiment) and, for a composite,
\* CompositeExperimentData(experiment), which holds one container per
\* component experiment: their classes are outside the sources at hand.
RECURSIVE ExperimentData(_)
ExperimentData(obj) ==
    [_metadata |-> _metadata(obj),
     _jobs |-> <<>>,
     _analysis_callbacks |-> <<>>,
     _components |-> [i \in DOMAIN obj._experiments |-> ExperimentData(obj._experiments[i])]]

NoData == ExperimentData(NoObject)

_initialize_experiment_data(obj) == ExperimentData(obj)

\* experiment_data.component_experiment_data(i)
component_experiment_data(data, i) == data._components[i]

\* experiment_data.add_data(jobs)
add_data(data, js) == [data EXCEPT !._jobs = @ \o [k \in DOMAIN js |-> js[k].job_id]]

\* experiment_data.add_analysis_callback(self.run_analysis)
add_analysis_callback(data, callback) ==
    [data EXCEPT !._analysis_callbacks = Append(@, callback)]

\* circuits(): T1 makes one circuit per delay; CompositeExperiment.circuits is
\* abstract, n is the number of circuits the subclass at hand returns.  A
\* circuit is its index in the list.
circuits(obj, n) ==
    IF obj.cls = "T1" THEN [i \in 1..len(obj._experiment_options.delays) |-> i]
    ELSE [i \in 1..n |-> i]

\* _run_jobs submitting all circuits as one job
_run_jobs_single_job(obj, circs, run_options) ==
    << [backend |-> obj._backend, circuits |-> circs,
        run_options |-> run_options, job_id |-> 1] >>

\* BaseExperiment._run_jobs: the jobs submitted, job k with job id k.  Both
\* branches of lines 370-374 submit circs with the run options as one job.
_run_jobs(obj, circs, run_options) ==
    LET m == max_experiments(obj._backend)
        starts == IF m # 0 /\ Len(circs) > m
                  THEN {i \in 0..(Len(circs) - 1) : i % m = 0}
                  ELSE {0}
        job_circuits ==
            IF m # 0 /\ Len(circs) > m
            THEN [k \in 1..Cardinality(starts) |->
                     SubSeq(circs, (k - 1) * m + 1,
                            IF k * m < Len(circs) THEN k * m ELSE Len(circs))]
            ELSE <<circs>>
    IN  [k \in DOMAIN job_circuits |->
            [backend |-> obj._backend, circuits |-> job_circuits[k],
             run_options |-> run_options, job_id |-> k]]

\* BaseExperiment._add_job_metadata
BaseExperiment_add_job_metadata(obj, data, js, run_options) ==
    [data EXCEPT !._metadata.job_metadata =
        Append(@, [job_ids |-> [k \in DOMAIN js |-> js[k].job_id],
                   experiment_options |-> obj._experiment_options,
                   transpile_options |-> obj._transpile_options,
                   analysis_options |-> obj._analysis_options,
                   run_options |-> run_options])]

\* _add_job_metadata recording, for each component, the component's own run
\* options
RECURSIVE _add_job_metadata_own_run_options(_, _, _, _)
_add_job_metadata_own_run_options(obj, data, js, run_options) ==
    Let(BaseExperiment_add_job_metadata(obj, data, js, run_options),
        LAMBDA d :
           [d EXCEPT !._components =
               [i \in DOMAIN @ |->
                   _add_job_metadata_own_run_options(
                       obj._experiments[i], component_experiment_data(d, i), js,
                       obj._experiments[i]._run_options)]])

\* _add_job_metadata of the class: BaseExperiment's, and for a composite
\* CompositeExperiment's, which goes on to the component experiments with
\* the same jobs and run options.
RECURSIVE _add_job_metadata(_, _, _, _)
_add_job_metadata(obj, data, js, run_options) ==
    Let(BaseExperiment_add_job_metadata(obj, data, js, run_options),
        LAMBDA d :
           [d EXCEPT !._components =
               [i \in DOMAIN @ |->
                   _add_job_metadata(obj._experiments[i], component_experiment_data(d, i),
                                     js, run_options)]])

\* what run gives when it raises before anything is created
Aborted(ex, obj, exp) ==
    [raised |-> ex, obj |-> obj, experiment |-> exp,
     experiment_data |-> NoData, jobs |-> <<>>, effects |-> <<>>]

\* BaseExperiment.run(backend, analysis, **run_options), lines 299-323: the
\* run of `experiment`, `obj` being self as lines 291-297 left it.
\* _postprocess_transpiled_circuits does nothing in either class.
run_experiment(obj, exp, analysis, run_options, n) ==
    Let(update_options(exp._run_options, run_options),
        LAMBDA run_opts :
           Let(_run_jobs(exp, circuits(exp, n), run_opts),
               LAMBDA js :
                  Let(_add_job_metadata(exp,
                          add_data(_initialize_experiment_data(exp), js), js, run_opts),
                      LAMBDA data :
                         [raised |-> "none",
                          obj |-> obj,
                          experiment |-> exp,
                          experiment_data |->
                             IF analysis /\ analysis_class(obj.cls) # None
                             THEN add_analysis_callback(data, "run_analysis") ELSE data,
                          jobs |-> js,
                          effects |-> <<"_initialize_experiment_data", "circuits", "transpile">>
                                      \o [k \in DOMAIN js |-> "backend.run"]])))

\* run creating the container before it tests the backend
run_late_backend_check(obj, backend, analysis, run_options, n) ==
    IF backend = None
    THEN IF obj._backend = None
         THEN [Aborted("QiskitError", obj, obj) EXCEPT
                  !.experiment_data = _initialize_experiment_data(obj),
                  !.effects = <<"_initialize_experiment_data">>]
         ELSE run_experiment(obj, obj, analysis, run_options, n)
    ELSE Let(_set_backend(copy(obj), backend),
             LAMBDA r :
                Let(shared_values(obj, r.obj),
                    LAMBDA o :
                       IF r.raised # "none" THEN Aborted(r.raised, o, r.obj)
                       ELSE run_experiment(o, r.obj, analysis, run_options, n)))

\* BaseExperiment.run
run(obj, backend, analysis, run_options, n) ==
    IF backend = None
    THEN IF obj._backend = None THEN Aborted("QiskitError", obj, obj)
         ELSE run_experiment(obj, obj, analysis, run_options, n)
    ELSE Let(_set_backend(copy(obj), backend),
             LAMBDA r :
                Let(shared_values(obj, r.obj),
                    LAMBDA o :
                       IF r.raised # "none" THEN Aborted(r.raised, o, r.obj)
                       ELSE IF r.obj._backend = None THEN Aborted("QiskitError", o, r.obj)
                       ELSE run_experiment(o, r.obj, analysis, run_options, n)))

\* ------------------------------------------------------------------- inputs
\* component experiments handed to a composite
T1a == Construct("T1", <<0, "[1,2,3]">>, <<>>).obj
Inner == Construct("CompositeExperiment", << <<T1a>>, QList(<<0>>) >>, <<>>).obj
ExperimentLists == { <<T1a>>, <<T1a, Inner>> }

\* lists of at most two qubits, duplicates included
QubitLists == {<<>>} \cup {<<q>> : q \in 0..MaxQubit}
                     \cup {<<q, r>> : q \in 0..MaxQubit, r \in 0..MaxQubit}

\* the values a caller passes for each constructor parameter
ParamValues(cls) ==
    IF cls = "T1"
    THEN [qubit |-> 0..MaxQubit,
          delays |-> {"[1,2]", "[1,2,3]"},
          backend |-> Backends,
          unit |-> {"s", "us"}]
    ELSE [experiments |-> {<<T1a>>},
          qubits |-> {Integral(n) : n \in (-1)..MaxQubit} \cup {QList(l) : l \in QubitLists},
          backend |-> Backends,
          experiment_type |-> {"Batch"}]

\* the positional argument tuples of length k
RECURSIVE ArgTuples(_, _, _)
ArgTuples(names, vals, k) ==
    IF k = 0 THEN {<<>>}
    ELSE {Append(a, v) : a \in ArgTuples(names, vals, k - 1), v \in vals[names[k]]}

\* the keyword dicts whose keys are exactly kws
KwDicts(kws, vals) == {d \in Dicts(kws, vals) : DOMAIN d = kws}

\* the constructor calls the option life cycle starts from
StdCalls ==
    {[cls |-> "T1", args |-> <<0, "[1,2,3]">>, kwargs |-> <<>>],
     [cls |-> "T1", args |-> <<0>>, kwargs |-> [delays |-> "[1,2,3]", unit |-> "us", backend |-> "sim"]],
     [cls |-> "T1", args |-> <<0, "[1,2]">>, kwargs |-> <<>>],
     [cls |-> "CompositeExperiment", args |-> << <<T1a, Inner>>, Integral(2) >>, kwargs |-> <<>>]}

\* a T1 component whose own run options are not the defaults
T1b == set_run_options(T1a, [shots |-> "50"]).obj

\* the constructor calls of the experiments that are run: a T1, and a
\* composite of a T1 and a composite, without and with a backend
RunCalls ==
    {[cls |-> "T1", args |-> <<0, "[1,2,3]">>, kwargs |-> <<>>],
     [cls |-> "CompositeExperiment", args |-> << <<T1b, Inner>>, Integral(2) >>, kwargs |-> <<>>],
     [cls |-> "CompositeExperiment", args |-> << <<T1b, Inner>>, Integral(2) >>,
      kwargs |-> [backend |-> "dev"]]}

\* the fields passed to the option setters
ExperimentFields ==
    Dicts({"unit", "bogus"}, [unit |-> {"s", "us"}, bogus |-> {"x"}])
TranspileFields ==
    Dicts({"optimization_level", "initial_layout"},
          [optimization_level |-> 0..MaxLevel, initial_layout |-> {"[0]"}])
\* the transpile options of an experiment that is run: the user's timing
\* constraints of the backend
TimingFields ==
    Dicts({"timing_constraints"}, [timing_constraints |-> {[granularity |-> 16]}])
RunFields ==
    Dicts({"meas_level", "shots"},
          [meas_level |-> {"CLASSIFIED", "KERNELED"}, shots |-> {"100"}])
AnalysisFields == Dicts({"xlabel"}, [xlabel |-> {"Time"}])

\* the run options passed to run
RunKwargs == Dicts({"shots"}, [shots |-> {"200"}])

\* the numbers of circuits circuits() of the class can return; T1's is given
\* by its delays
CircuitCounts(cls) == IF cls = "T1" THEN {0} ELSE 0..MaxCircuits

NoConfig == config(NoObject)

\* the ExperimentConfig records a user holds: the experiment's config, and
\* records with the class missing or not deserialized, the arguments dropped,
\* or an option the class does not declare
UserConfigs(obj) ==
    UNION {{c, [c EXCEPT !.cls = None], [c EXCEPT !.cls = "dict"],
            [c EXCEPT !.args = <<>>], [c EXCEPT !.experiment_options = [bogus |-> "x"]]}
           : c \in {config(obj)}}

\* ------------------------------------------------------------------ actions
Called(op) == [op |-> op, cls |-> None, args |-> <<>>, kwargs |-> <<>>,
               fields |-> <<>>, config |-> NoConfig]

\* a call other than run leaves nothing of a run
NotRun ==
    /\ executed' = NoObject
    /\ experiment_data' = NoData
    /\ jobs' = <<>>
    /\ effects' = <<>>

Init ==
    /\ pc = "start"
    /\ self = NoObject
    /\ call = Called("none")
    /\ raised = "none"
    /\ ret = NoObject
    /\ executed = NoObject
    /\ experiment_data = NoData
    /\ jobs = <<>>
    /\ effects = <<>>

\* self = cls(*args, **kwargs)
New(c) ==
    /\ pc = "start"
    /\ \E r \in {Construct(c.cls, c.args, c.kwargs)} :
           /\ pc' = IF r.raised = "none" THEN "live" ELSE "failed"
           /\ self' = IF r.raised = "none" THEN r.obj ELSE NoObject
           /\ raised' = r.raised
           /\ call' = [Called("__init__") EXCEPT
                          !.cls = c.cls, !.args = c.args, !.kwargs = c.kwargs]
    /\ ret' = NoObject
    /\ NotRun

NewStd == \E c \in StdCalls : New(c)

NewRun == \E c \in RunCalls : New(c)

\* every call cls(*args, **kwargs) mixing positional and keyword arguments,
\* the ill-formed ones (a parameter left out or given twice) included
NewAny ==
    \E cls \in Classes :
       \E k \in 0..Len(init_arg_names(cls)), kws \in SUBSET Range(init_arg_names(cls)) :
          \E a \in ArgTuples(init_arg_names(cls), ParamValues(cls), k),
             kw \in KwDicts(kws, ParamValues(cls)) :
             New([cls |-> cls, args |-> a, kwargs |-> kw])

\* a method of self that takes **fields and returns nothing
Setter(op, result, fields) ==
    /\ \E r \in {result} :
          /\ self' = r.obj
          /\ raised' = r.raised
    /\ call' = [Called(op) EXCEPT !.fields = fields]
    /\ ret' = NoObject
    /\ NotRun
    /\ UNCHANGED pc

SetExperimentOptions ==
    /\ pc = "live"
    /\ \E fields \in ExperimentFields :
          Setter("set_experiment_options", set_experiment_options(self, fields), fields)

SetTranspileOptions ==
    /\ pc = "live"
    /\ \E fields \in TranspileFields :
          Setter("set_transpile_options", set_transpile_options(self, fields), fields)

SetTimingConstraints ==
    /\ pc = "live"
    /\ \E fields \in TimingFields :
          Setter("set_transpile_options", set_transpile_options(self, fields), fields)

SetRunOptions ==
    /\ pc = "live"
    /\ \E fields \in RunFields :
          Setter("set_run_options", set_run_options(self, fields), fields)

SetAnalysisOptions ==
    /\ pc = "live"
    /\ \E fields \in AnalysisFields :
          Setter("set_analysis_options", set_analysis_options(self, fields), fields)

\* self.backend = backend
SetBackend ==
    /\ pc = "live"
    /\ \E backend \in Backends \cup {None} :
          Setter("backend", _set_backend(self, backend), [backend |-> backend])

\* type(self).from_config(self.config), or the same with the config as a dict
FromConfig ==
    /\ pc = "live"
    /\ \E isdict \in BOOLEAN :
          \E cfg \in {IF isdict THEN asdict(config(self)) ELSE config(self)} :
             \E r \in {from_config(self.cls, cfg)} :
                /\ ret' = r.obj
                /\ raised' = r.raised
                /\ call' = [Called("from_config") EXCEPT !.cls = self.cls, !.config = cfg]
    /\ NotRun
    /\ UNCHANGED <<pc, self>>

\* config.experiment
Experiment ==
    /\ pc = "live"
    /\ \E cfg \in UserConfigs(self) :
          \E r \in {experiment(cfg)} :
             /\ ret' = r.obj
             /\ raised' = r.raised
             /\ call' = [Called("experiment") EXCEPT !.config = cfg]
    /\ NotRun
    /\ UNCHANGED <<pc, self>>

\* self.run(backend, analysis, **run_options)
Run ==
    /\ pc = "live"
    /\ \E backend \in Backends \cup {None}, analysis \in BOOLEAN,
          run_options \in RunKwargs, n \in CircuitCounts(self.cls) :
          \E r \in {run(self, backend, analysis, run_options, n)} :
             /\ self' = r.obj
             /\ raised' = r.raised
             /\ executed' = r.experiment
             /\ experiment_data' = r.experiment_data
             /\ jobs' = r.jobs
             /\ effects' = r.effects
             /\ call' = [Called("run") EXCEPT
                            !.kwargs = [backend |-> backend, analysis |-> analysis],
                            !.fields = run_options]
    /\ ret' = NoObject
    /\ UNCHANGED pc

Next ==
    \/ NewStd
    \/ SetExperimentOptions
    \/ SetTranspileOptions
    \/ SetRunOptions
    \/ SetAnalysisOptions
    \/ SetBackend
    \/ FromConfig
    \/ Experiment

Spec == Init /\ [][Next]_vars

\* the constructor calls alone, in every shape
NextNew == NewAny

SpecNew == Init /\ [][NextNew]_vars

\* backend assignment and run
NextRun ==
    \/ NewRun
    \/ SetTimingConstraints
    \/ SetRunOptions
    \/ SetBackend
    \/ Run

SpecRun == Init /\ [][NextRun]_vars

\* ------------------------------------------------------------------- claims
\* the option names each namespace's defaults declare
Declared(obj) ==
    [experiment |-> DOMAIN _default_experiment_options(obj.cls),
     transpile |-> DOMAIN _default_transpile_options(obj.cls),
     run |-> DOMAIN _default_run_options(obj.cls),
     analysis |-> DOMAIN _default_analysis_options(obj.cls)]

C3_InitialLayoutRejected ==
    /\ [](pc = "live" => "initial_layout" \notin DOMAIN self._transpile_options)
    /\ [][(call'.op = "set_transpile_options" /\ "initial_layout" \in DOMAIN call'.fields)
          => (raised' = "QiskitError" /\ self' = self)]_vars

\* the refused call also passed an optimization level other than the one held
C3_Witness ==
    /\ call.op = "set_transpile_options"
    /\ DOMAIN call.fields = {"initial_layout", "optimization_level"}
    /\ raised = "QiskitError"
    /\ call.fields.optimization_level # self._transpile_options.optimization_level

NonDefault(d, defaults, k) == k \in DOMAIN defaults => d[k] # defaults[k]

\* C5, as stated: every key of the three option dicts of config maps to a
\* value that differs from the default value of that field.
C5_ConfigOnlyNonDefault ==
    pc = "live" =>
       /\ \A k \in DOMAIN config(self).experiment_options :
             NonDefault(config(self).experiment_options, _default_experiment_options(self.cls), k)
       /\ \A k \in DOMAIN config(self).transpile_options :
             NonDefault(config(self).transpile_options, _default_transpile_options(self.cls), k)
       /\ \A k \in DOMAIN config(self).run_options :
             NonDefault(config(self).run_options, _default_run_options(self.cls), k)

\* C6: type(exp).from_config(exp.config) returns an experiment whose config
\* equals exp.config.
C6_ConfigRoundTrip ==
    (call.op = "from_config" /\ ~call.config.isdict) =>
       /\ call.config = config(self)
       /\ raised = "none"
       /\ config(ret) = config(self)

\* the round trip of a config with keyword arguments and all three option
\* dicts non-empty
C6_Witness ==
    /\ call.op = "from_config"
    /\ ~call.config.isdict
    /\ call.config.kwargs # <<>>
    /\ call.config.experiment_options # <<>>
    /\ call.config.transpile_options # <<>>
    /\ call.config.run_options # <<>>
    /\ ret.cls = self.cls

\* C7, as stated: from_config called with a dict of the ExperimentConfig
\* fields returns the experiment it returns for the ExperimentConfig.
C7_FromConfigAcceptsDict ==
    (call.op = "from_config" /\ call.config.isdict) =>
       /\ raised = "none"
       /\ ret = from_config(call.cls, [call.config EXCEPT !.isdict = FALSE]).obj

\* C8, as stated: config.experiment raises QiskitError when the class is
\* None, when it is a dict, and when cls.from_config raises; otherwise it
\* returns cls.from_config(config).
C8_ExperimentRaisesQiskitError ==
    call.op = "experiment" =>
       IF call.config.cls \in {None, "dict"}
       THEN raised = "QiskitError"
       ELSE IF from_config(call.config.cls, call.config).raised # "none"
       THEN raised = "QiskitError"
       ELSE raised = "none" /\ ret = from_config(call.config.cls, call.config).obj

\* the parameters of cls.__init__ without default, in declaration order
Required(cls) == SelectSeq(init_arg_names(cls), LAMBDA p : p \notin DOMAIN init_defaults(cls))

\* whether the call passes parameter p, by position or by keyword
Passes(c, p) ==
    \/ p \in DOMAIN c.kwargs
    \/ \E i \in 1..Len(c.args) : init_arg_names(c.cls)[i] = p

\* C9: after a successful call mixing positional and keyword arguments,
\* __init_args__ holds the parameters without default in declaration order,
\* __init_kwargs__ exactly the parameters with default that the call passed,
\* each with the value passed, and cls(*config.args, **config.kwargs) binds
\* every parameter to the value the call bound it to.
C9_ArgumentCapture ==
    (pc = "live" /\ call.op = "__init__") =>
       LET b == bind(call.cls, call.args, call.kwargs).bound
       IN  /\ [i \in 1..Len(self.__init_args__) |-> self.__init_args__[i][1]] = Required(call.cls)
           /\ \A i \in 1..Len(self.__init_args__) :
                 self.__init_args__[i][2] = b[self.__init_args__[i][1]]
           /\ DOMAIN self.__init_kwargs__ =
                 {p \in DOMAIN init_defaults(call.cls) : Passes(call, p)}
           /\ \A p \in DOMAIN self.__init_kwargs__ : self.__init_kwargs__[p] = b[p]
           /\ bind(call.cls, config(self).args, config(self).kwargs).raised = "none"
           /\ bind(call.cls, config(self).args, config(self).kwargs).bound = b

\* a T1 built with backend passed by position and unit by keyword
C9_Witness ==
    /\ pc = "live"
    /\ call.op = "__init__"
    /\ call.cls = "T1"
    /\ Len(call.args) = 3
    /\ DOMAIN call.kwargs = {"unit"}
    /\ DOMAIN self.__init_kwargs__ = {"backend", "unit"}

\* the `qubits` argument of the constructor call, for a call Python can bind
QubitsArgument(c) == bind(c.cls, c.args, c.kwargs).bound.qubits

\* C10, as stated: a qubit list with a duplicate raises QiskitError; a
\* constructed experiment has no duplicate in physical_qubits and num_qubits
\* = len(physical_qubits), and an integer n gives physical_qubits (0..n-1).
C10_QubitInvariant ==
    /\ (/\ call.op = "__init__"
        /\ call.cls = "CompositeExperiment"
        /\ bind(call.cls, call.args, call.kwargs).raised = "none"
        /\ ~QubitsArgument(call).Integral
        /\ \E i, j \in DOMAIN QubitsArgument(call).list :
              i # j /\ QubitsArgument(call).list[i] = QubitsArgument(call).list[j])
       => raised = "QiskitError"
    /\ pc = "live" =>
          /\ \A i, j \in DOMAIN self._physical_qubits :
                self._physical_qubits[i] = self._physical_qubits[j] => i = j
          /\ self._num_qubits = Len(self._physical_qubits)
          /\ (call.cls = "CompositeExperiment" /\ QubitsArgument(call).Integral)
                => self._physical_qubits = [i \in 1..QubitsArgument(call).n |-> i - 1]

\* C11: run on an experiment with no backend set, called without a backend,
\* raises QiskitError having created no container, generated or transpiled
\* no circuit and submitted no job, and leaves the experiment as it was.
C11_RunWithoutBackend ==
    [][(call'.op = "run" /\ call'.kwargs.backend = None /\ self._backend = None)
       => /\ raised' = "QiskitError"
          /\ effects' = <<>>
          /\ jobs' = <<>>
          /\ experiment_data' = NoData
          /\ self' = self]_vars

\* the refused run of a composite one of whose components has a backend,
\* with run options passed
C11_Witness ==
    /\ call.op = "run"
    /\ call.kwargs.backend = None
    /\ call.fields # <<>>
    /\ self.cls = "CompositeExperiment"
    /\ self._backend = None
    /\ \E i \in DOMAIN self._experiments : self._experiments[i]._backend # None
    /\ raised = "QiskitError"

\* whether experiment a (and each of its component experiments, at every
\* depth) has the backend and the values of the four option namespaces of b
RECURSIVE SameSettings(_, _)
SameSettings(a, b) ==
    /\ a._backend = b._backend
    /\ a._experiment_options = b._experiment_options
    /\ a._transpile_options = b._transpile_options
    /\ a._run_options = b._run_options
    /\ a._analysis_options = b._analysis_options
    /\ DOMAIN a._experiments = DOMAIN b._experiments
    /\ \A i \in DOMAIN a._experiments : SameSettings(a._experiments[i], b._experiments[i])

\* C12, as stated: a run with a backend passed submits its jobs to that
\* backend, and after it returns the experiment and each of its component
\* experiments have the backend and the option values they had before.
C12_RunBackendOverride ==
    [][(call'.op = "run" /\ call'.kwargs.backend # None /\ raised' = "none")
       => /\ \A k \in DOMAIN jobs' : jobs'[k].backend = call'.kwargs.backend
          /\ SameSettings(self', self)]_vars

\* C13: every job submitted to a backend whose configuration reports a
\* positive max_experiments holds at most max_experiments circuits.
C13_JobBatching ==
    \A k \in DOMAIN jobs :
       max_experiments(jobs[k].backend) > 0
          => Len(jobs[k].circuits) <= max_experiments(jobs[k].backend)

\* a run whose circuits did not fit one job and whose last job is not full
C13_Witness ==
    /\ call.op = "run"
    /\ Len(jobs) > 1
    /\ Len(jobs[1].circuits) = max_experiments(jobs[1].backend)
    /\ Len(jobs[Len(jobs)].circuits) < max_experiments(jobs[1].backend)

\* whether the experiment and each of its component experiments, at every
\* depth, has the backend
RECURSIVE HasBackend(_, _)
HasBackend(obj, backend) ==
    /\ obj._backend = backend
    /\ \A i \in DOMAIN obj._experiments : HasBackend(obj._experiments[i], backend)

\* C14: after a composite experiment is constructed with a backend, after a
\* backend is assigned to its backend property, and in the experiment a run
\* with a backend passed executes on, the composite and each of its component
\* experiments at every depth have that backend.
C14_BackendForwarded ==
    /\ (/\ pc = "live"
        /\ call.op = "__init__"
        /\ call.cls = "CompositeExperiment"
        /\ "backend" \in DOMAIN call.kwargs)
       => HasBackend(self, call.kwargs.backend)
    /\ (/\ call.op = "backend"
        /\ self.cls = "CompositeExperiment"
        /\ call.fields.backend \in Backends)
       => (raised = "none" /\ HasBackend(self, call.fields.backend))
    /\ (/\ call.op = "run"
        /\ self.cls = "CompositeExperiment"
        /\ call.kwargs.backend \in Backends)
       => (raised = "none" /\ HasBackend(executed, call.kwargs.backend))

\* a run with the simulator passed, of a composite on the hardware backend:
\* the T1 inside the inner composite has the simulator in the experiment run
C14_Witness ==
    /\ call.op = "run"
    /\ call.kwargs.backend = "sim"
    /\ self._backend = "dev"
    /\ Len(executed._experiments) = 2
    /\ executed._experiments[2]._experiments[1].cls = "T1"
    /\ executed._experiments[2]._experiments[1]._backend = "sim"

\* whether the container of the experiment, and the container of each of its
\* component experiments at every depth, holds exactly one job_metadata entry,
\* with these job ids and these run options
RECURSIVE Recorded(_, _, _, _)
Recorded(obj, data, ids, run_options) ==
    /\ Len(data._metadata.job_metadata) = 1
    /\ data._metadata.job_metadata[1].job_ids = ids
    /\ data._metadata.job_metadata[1].run_options = run_options
    /\ DOMAIN data._components = DOMAIN obj._experiments
    /\ \A i \in DOMAIN obj._experiments :
          Recorded(obj._experiments[i], data._components[i], ids, run_options)

\* C15: after a run of a composite experiment, its container and the
\* container of each component experiment at every depth hold exactly one
\* job_metadata entry, all with the ids of the jobs of the run and with the
\* composite's run options for the run (its run options updated with those
\* passed to run).
C15_CompositeJobMetadata ==
    (call.op = "run" /\ raised = "none" /\ self.cls = "CompositeExperiment")
       => Recorded(executed, experiment_data,
                   [k \in DOMAIN jobs |-> jobs[k].job_id],
                   update_options(self._run_options, call.fields))

\* a run in two jobs of a composite whose run options differ from the run
\* options of its first component, which has some of its own
C15_Witness ==
    /\ call.op = "run"
    /\ raised = "none"
    /\ self.cls = "CompositeExperiment"
    /\ Len(jobs) = 2
    /\ self._run_options.meas_level = "KERNELED"
    /\ call.fields # <<>>
    /\ "shots" \in DOMAIN executed._experiments[1]._run_options
    /\ executed._experiments[1]._run_options
          # experiment_data._components[1]._metadata.job_metadata[1].run_options
    /\ Len(experiment_data._components[2]._components[1]._metadata.job_metadata) = 1

====
